---- MODULE Spec2Model ----
(***************************************************************************)
(* Model of git-project-fetcher: the orchestrator loop of main              *)
(* (src/src/main.rs), process_project (src/src/project_logic.rs), the git   *)
(* wrappers (src/src/git_utils.rs) and the Ctrl+C handler thread.           *)
(*                                                                          *)
(* Every git subprocess is one step of the main thread; its outcome (exit   *)
(* status or failure to launch) is chosen by the environment.  The state of *)
(* the target path on disk is what the program finds when it starts a       *)
(* project.                                                                 *)
(***************************************************************************)
EXTENDS Integers, Sequences, FiniteSets, TLC

\* ---------------------------------------------------------------- bounds
MaxProjects == 2
MaxBranches == 2
MaxStdoutLen == 3

\* ---------------------------------------------------------------- values
Branches == {"main", "dev"}

\* Option<T>::None
None == "None"

\* Outcome of one Command::output(): exit 0, non-zero exit, or the executable
\* could not be started (the map_err arm of each wrapper).
Outcomes == {"ok", "failed", "launch"}

\* Paths are sequences of components; "/" as first component is the root,
\* "~" as first component is an unexpanded tilde.
HomeDir == <<"/", "home">>
ParentCloneDir == <<"/", "work">>

IsAbsolute(p) == p # <<>> /\ Head(p) = "/"

\* shellexpand::tilde: a leading "~" component is replaced by the home directory
Tilde(p) == IF p # <<>> /\ Head(p) = "~" THEN HomeDir \o Tail(p) ELSE p

\* Path::join: an absolute argument replaces the base
Join(base, p) == IF IsAbsolute(p) THEN p ELSE base \o p

\* The parent directory prepended whatever the path is
ResolveProjectPath_AlwaysJoin(parent, path) == parent \o Tilde(path)

ResolveProjectPath(parent, path) ==
    LET expanded == Tilde(path)
    IN  IF IsAbsolute(expanded) THEN expanded ELSE Join(parent, expanded)

\* Option<String> default_clone_parent_directory: None, or Some(value) where the
\* empty path is the empty string
NoDir == [some |-> FALSE, value |-> <<>>]

ParentDirValues == {<<>>, <<"~", "work">>, <<"/", "srv">>, <<"rel">>, <<"~bob", "w">>}

\* Option<GlobalConfig>: absent, or present with its optional directory
GlobalConfigs ==
    {[present |-> FALSE, dir |-> NoDir], [present |-> TRUE, dir |-> NoDir]}
    \cup { [present |-> TRUE, dir |-> [some |-> TRUE, value |-> v]] :
              v \in ParentDirValues }

\* config_file_path.parent(): absolute, relative, or empty for a bare file name
ConfigFileDirs == {<<"/", "etc">>, <<"conf">>, <<>>}

\* env::current_dir()
AppCwd == <<"/", "cwd">>

\* The `path` strings of project entries (non-empty after validation)
ProjectPaths == {<<"app">>, <<"sub", "app">>, <<"/", "abs", "app">>, <<"~", "app">>}

\* The empty string treated like an unset directory
EffectiveParentDir_EmptyIsUnset(gc, config_file_dir, app_cwd) ==
    IF ~gc.present \/ ~gc.dir.some \/ gc.dir.value = <<>> THEN config_file_dir
    ELSE LET expanded_parent_dir == Tilde(gc.dir.value)
         IN  IF IsAbsolute(expanded_parent_dir) THEN expanded_parent_dir
             ELSE Join(config_file_dir, expanded_parent_dir)

\* main: effective_parent_dir_for_cloning
EffectiveParentDir(gc, config_file_dir, app_cwd) ==
    IF ~gc.present \/ ~gc.dir.some THEN config_file_dir
    ELSE IF gc.dir.value = <<>> THEN app_cwd
    ELSE LET expanded_parent_dir == Tilde(gc.dir.value)
         IN  IF IsAbsolute(expanded_parent_dir) THEN expanded_parent_dir
             ELSE Join(config_file_dir, expanded_parent_dir)

\* No path resolution is being examined
NoPathCall ==
    [stage |-> "none", global_config |-> [present |-> FALSE, dir |-> NoDir],
     config_file_dir |-> <<>>, path |-> <<>>,
     effective_parent_dir |-> <<>>, project_path |-> <<>>]

\* Vec<String> of at most MaxBranches branch names
BranchLists == UNION { [1..k -> Branches] : k \in 0..MaxBranches }

\* Option<Vec<String>>: None (the field is omitted) or Some(list)
NoBranches == [some |-> FALSE, list |-> <<>>]
PullBranches == {NoBranches} \cup { [some |-> TRUE, list |-> l] : l \in BranchLists }

\* The (project, url, path) triples of the configuration entries
Repos ==
    { [project |-> "rel",   url |-> "url_rel",   path |-> <<"app">>],
      [project |-> "abs",   url |-> "url_abs",   path |-> <<"/", "abs", "app">>],
      [project |-> "tilde", url |-> "url_tilde", path |-> <<"~", "app">>] }

ProjectConfigs ==
    { [project |-> r.project, url |-> r.url, path |-> r.path, pull_branches |-> b] :
        r \in Repos, b \in PullBranches }

NoConfig == [project |-> "", url |-> "", path |-> <<>>, pull_branches |-> NoBranches]

\* What the target path is on disk:
\*   "noparent"  neither the path nor its parent directory exists
\*   "absent"    the parent exists, the path does not
\*   "dir"       the path exists and has no .git directory
\*   "repo"      the path exists and has a .git directory; head is what
\*               git rev-parse --abbrev-ref HEAD prints: the branch checked
\*               out, or "HEAD" when no branch is (detached HEAD)
Detached == "HEAD"
Heads == Branches \cup {Detached}

PathStates ==
    { [kind |-> k, head |-> None] : k \in {"noparent", "absent", "dir"} }
    \cup { [kind |-> "repo", head |-> h] : h \in Heads }

\* The repository after a successful git checkout <name>: checking out "HEAD"
\* switches nothing
CheckedOut(st, name) == IF name = Detached THEN st ELSE [st EXCEPT !.head = name]

\* No project is being processed
NoPath == [kind |-> "none", head |-> None]

\* ------------------------------------------------------- configuration file
\* An entry of "projects", as validate_project_config reads it: whether each
\* required string is non-empty
Entries == [project : BOOLEAN, url : BOOLEAN, path : BOOLEAN]

\* The configuration file: missing, unreadable, not parseable as AppConfig, or
\* parsed into its list of entries
ConfigDocs ==
    { [file |-> f, projects |-> << >>] : f \in {"missing", "unreadable", "malformed"} }
    \cup { [file |-> "ok", projects |-> l] :
              l \in UNION { [1..k -> Entries] : k \in 0..MaxProjects } }

\* validate_project_config: the first empty field, in the order name, url, path
ValidateProjectConfig(e) ==
    IF ~e.project THEN "EmptyName"
    ELSE IF ~e.url THEN "EmptyUrl"
    ELSE IF ~e.path THEN "EmptyPath"
    ELSE "Ok"

\* Only the first entry validated
LoadConfigFromFile_FirstOnly(d) ==
    IF d.file = "missing" THEN "NotFound"
    ELSE IF d.file = "unreadable" THEN "ReadFile"
    ELSE IF d.file = "malformed" THEN "Parse"
    ELSE IF d.projects = << >> THEN "NoProjects"
    ELSE IF ValidateProjectConfig(d.projects[1]) # "Ok" THEN "Validation"
    ELSE "Ok"

\* load_config_from_file: Ok, or the ConfigError variant
LoadConfigFromFile(d) ==
    IF d.file = "missing" THEN "NotFound"
    ELSE IF d.file = "unreadable" THEN "ReadFile"
    ELSE IF d.file = "malformed" THEN "Parse"
    ELSE IF d.projects = << >> THEN "NoProjects"
    ELSE IF \E i \in 1..Len(d.projects) : ValidateProjectConfig(d.projects[i]) # "Ok"
         THEN "Validation"
    ELSE "Ok"

\* ------------------------------------------------------ pull_branch_updates
\* The captured standard output of git pull is a sequence of words; a phrase is
\* contained in it when its words occur in it one after the other.
Words == {"Already", "already", "up to date.", "up-to-date.", "Bereits", "aktuell.",
          "Updating"}

Stdouts == UNION { [1..k -> Words] : k \in 0..MaxStdoutLen }

\* str::contains
Contains(s, phrase) ==
    \E i \in 1..(Len(s) - Len(phrase) + 1) :
        SubSeq(s, i, i + Len(phrase) - 1) = phrase

\* The whole output compared with the phrases
UpToDate_WholeOutput(stdout) ==
    stdout = <<"Already", "up to date.">> \/ stdout = <<"Bereits", "aktuell.">>

\* stdout_str.contains("Already up to date.") || stdout_str.contains("Bereits aktuell.")
UpToDate(stdout) ==
    \/ Contains(stdout, <<"Already", "up to date.">>)
    \/ Contains(stdout, <<"Bereits", "aktuell.">>)

\* What one call of pull_branch_updates reports: the value returned, the
\* branch name shown, and the status messages emitted
NoReport == [result |-> None, display |-> None, statuses |-> {}]

\* pull_branch_updates, given the outcome of Command::output() and the captured
\* standard output
PullReport(outcome, stdout, branch_to_pull) ==
    LET branch_display_name ==
            IF branch_to_pull = None THEN "current branch" ELSE branch_to_pull
    IN  IF outcome = "launch"
        THEN [result |-> "CommandExecution", display |-> branch_display_name,
              statuses |-> {}]
        ELSE IF outcome = "ok"
        THEN [result |-> "Ok", display |-> branch_display_name,
              statuses |->
                  IF UpToDate(stdout) THEN {"is already up to date"}
                  ELSE {"Successfully pulled updates"}
                       \cup (IF stdout # << >> THEN {"Git pull output"} ELSE {})]
        ELSE [result |-> "CommandFailed", display |-> branch_display_name,
              statuses |-> {}]

\* No call of pull_branch_updates is being examined
NoPullCall ==
    [stdout |-> << >>, outcome |-> "ok", branch |-> None, report |-> NoReport]

VARIABLES
    n,                          \* app_config.projects.len()
    idx,                        \* number of projects taken by the for loop
    config,                     \* project_config of the current iteration
    pc,                         \* position of the main thread
    project_path,               \* process_project: project_path
    fs,                         \* the target path on disk
    found,                      \* the target path as process_project found it
    original_branch,            \* process_project: original_branch
    bi,                         \* position in branches_to_pull
    result,                     \* value returned by process_project
    encountered_project_error,  \* main: encountered_project_error
    finish_message,             \* main: the finish_with_message text
    calls,                      \* how often process_project was called per project
    errors,                     \* the projects whose error main recorded
    ops,                        \* git subprocesses of the current process_project call
    last,                       \* the last git subprocess and its outcome
    intr,                       \* Ctrl+C handler thread: "none", "received", "exited"
    doc,                        \* the configuration file given on the command line
    main_result,                \* value returned by main
    spawned,                    \* the main thread is inside Command::output()
    inflight,                   \* git child processes started and not yet exited
    pull_call,                  \* one call of pull_branch_updates and its report
    path_call,                  \* one resolution of a project's target path
    events                      \* what the last git step emitted, in order

vars == <<n, idx, config, pc, project_path, fs, found, original_branch, bi, result,
          encountered_project_error, finish_message, calls, errors, ops, last, intr,
          doc, main_result, spawned, inflight, pull_call, path_call,
          events>>

NoCmd == [op |-> "none", outcome |-> "ok"]

\* One git subprocess, as recorded in ops: the call site in process_project,
\* the git command, its arguments, and whether it exited with status 0
GitOp(site, op, url, path, branch, ok) ==
    [site |-> site, op |-> op, url |-> url, path |-> path, branch |-> branch,
     ok |-> ok]

Init ==
    /\ doc \in ConfigDocs
    /\ n = 0
    /\ idx = 0
    /\ config = NoConfig
    /\ pc = "start"
    /\ project_path = <<>>
    /\ fs = NoPath
    /\ found = NoPath
    /\ original_branch = None
    /\ bi = 0
    /\ result = None
    /\ encountered_project_error = FALSE
    /\ finish_message = None
    /\ calls = << >>
    /\ errors = {}
    /\ ops = <<>>
    /\ last = NoCmd
    /\ intr = "none"
    /\ main_result = None
    /\ spawned = FALSE
    /\ inflight = 0
    /\ pull_call = NoPullCall
    /\ path_call = NoPathCall
    /\ events = << >>

\* The process is alive: std::process::exit has not run
Alive == intr # "exited"

\* ------------------------------------------------------------- main: start-up
\* ctrlc::set_handler(..)?
SetHandler ==
    /\ pc = "start"
    /\ \E installed \in BOOLEAN :
         IF installed
         THEN pc' = "load" /\ main_result' = main_result
         ELSE pc' = "failed" /\ main_result' = "CtrlCSetup"
    /\ UNCHANGED <<n, idx, config, project_path, fs, found, original_branch, bi,
                   result, encountered_project_error, finish_message, calls, errors,
                   ops, last, intr, doc, spawned, inflight, pull_call, path_call, events>>

\* let app_config = load_config_from_file(config_file_path)?
LoadConfig ==
    /\ Alive /\ pc = "load"
    /\ IF LoadConfigFromFile(doc) = "Ok"
       THEN /\ n' = Len(doc.projects)
            /\ calls' = [i \in 1..Len(doc.projects) |-> 0]
            /\ pc' = "cwd"
            /\ main_result' = main_result
       ELSE /\ n' = n
            /\ calls' = calls
            /\ pc' = "failed"
            /\ main_result' = "Config"
    /\ UNCHANGED <<idx, config, project_path, fs, found, original_branch, bi,
                   result, encountered_project_error, finish_message, errors,
                   ops, last, intr, doc, spawned, inflight, pull_call, path_call, events>>

\* let app_cwd = env::current_dir().map_err(AppError::CurrentDir)?
CurrentDir ==
    /\ Alive /\ pc = "cwd"
    /\ \E found_cwd \in BOOLEAN :
         IF found_cwd
         THEN pc' = "loop" /\ main_result' = main_result
         ELSE pc' = "failed" /\ main_result' = "CurrentDir"
    /\ UNCHANGED <<n, idx, config, project_path, fs, found, original_branch, bi,
                   result, encountered_project_error, finish_message, calls, errors,
                   ops, last, intr, doc, spawned, inflight, pull_call, path_call, events>>

\* ------------------------------------------------------------- git subprocess
\* The positions of process_project that run a git subprocess
GitPcs == {"clone", "get_original", "checkout", "pull", "get_after", "restore",
           "log_current", "pull_current"}

\* The child left running: spawn() without wait()
Reaped_NoWait(k) == k

\* Command::output() returns when the child has exited
Reaped(k) == k - 1

\* Command::output() starts the git child process ...
Spawn ==
    /\ Alive /\ pc \in GitPcs /\ ~spawned
    /\ spawned' = TRUE
    /\ inflight' = inflight + 1
    /\ UNCHANGED <<n, idx, config, pc, project_path, fs, found, original_branch, bi,
                   result, encountered_project_error, finish_message, calls, errors,
                   ops, last, intr, doc, main_result, pull_call, path_call, events>>

\* ... and returns its outcome: Err at once when the child could not be
\* started, the exit status once a started child has exited
OutputReturns(o) ==
    /\ (o = "launch") <=> ~spawned
    /\ spawned' = FALSE
    /\ inflight' = IF spawned THEN Reaped(inflight) ELSE inflight

\* ------------------------------------------------ progress and log messages
\* What a git step emits, in program order: messages to the progress reporter
\* (progress_bar.set_message), entries of the log file (log_to_file), and the
\* call of Command::output() itself
Progress(msg) == [to |-> "progress", msg |-> msg]
Log(msg) == [to |-> "log", msg |-> msg]
GitRun == [to |-> "git", msg |-> "output"]

\* clone_repo
CloneRepoEvents(o) ==
    <<Progress("Cloning"), Log("Cloning"), GitRun>>
    \o (IF o = "ok" THEN <<Progress("Successfully cloned"), Log("Successfully cloned")>>
        ELSE << >>)

\* checkout_branch
CheckoutBranchEvents(o) ==
    <<Progress("Attempting to checkout"), Log("Attempting to checkout"), GitRun>>
    \o (IF o = "ok"
        THEN <<Progress("Successfully checked out"), Log("Successfully checked out")>>
        ELSE << >>)

\* pull_branch_updates: both success messages are a set_message and a log entry
PullBranchUpdatesEvents(o) ==
    <<Progress("Pulling updates"), Log("Pulling updates"), GitRun>>
    \o (IF o = "ok" THEN <<Progress("pull succeeded"), Log("pull succeeded")>>
        ELSE << >>)

\* process_project: clone_repo(..).map_err(|e| { log_to_file(..); .. })?
CloneEvents(o) ==
    CloneRepoEvents(o) \o (IF o = "ok" THEN << >> ELSE <<Log("Clone failed")>>)

\* process_project: match get_current_branch(..) before the list
OriginalBranchEvents(o) ==
    <<GitRun>>
    \o (IF o = "ok" THEN <<Log("Current branch is")>>
        ELSE <<Progress("Branch check failed"),
               Log("Could not determine current branch")>>)

\* process_project: one checkout of the for loop with both arms of its match
ListCheckoutEvents(o) ==
    <<Progress("Switching to branch")>> \o CheckoutBranchEvents(o)
    \o (IF o = "ok" THEN << >>
        ELSE <<Progress("Checkout failed"), Log("Failed to checkout branch")>>)

\* process_project: if let Err(e) = pull_branch_updates(Some(..)) { log_to_file(..) }
ListPullEvents(o) ==
    PullBranchUpdatesEvents(o)
    \o (IF o = "ok" THEN << >> ELSE <<Log("Continuing after pull error")>>)

\* process_project: get_current_branch(..).ok() after the list and the else arm
\* of the comparison
AfterPullsEvents(o, restore) ==
    <<GitRun>> \o (IF restore THEN << >> ELSE <<Log("Already on original branch")>>)

\* process_project: the restoring block
RestoreEvents(o) ==
    <<Log("Attempting to restore original branch"),
      Progress("Restoring original branch")>>
    \o CheckoutBranchEvents(o)
    \o (IF o = "ok" THEN << >>
        ELSE <<Progress("Restore failed"), Log("Failed to restore original branch")>>)

\* process_project: get_current_branch(..).unwrap_or_else(..) and the log line
LogCurrentEvents(o) == <<GitRun, Log("pulling current branch")>>

\* process_project: if let Err(e) = pull_branch_updates(None) { log_to_file(..) }
CurrentPullEvents(o) ==
    PullBranchUpdatesEvents(o)
    \o (IF o = "ok" THEN << >>
        ELSE <<Log("Continuing after pull error on current branch")>>)

\* ------------------------------------------------------------ process_project
\* A `break` after the first listed branch
AfterBranch_StopAfterFirst(i, branches, orig) ==
    IF orig = None THEN [pc |-> "return", bi |-> i, result |-> "Ok"]
    ELSE [pc |-> "get_after", bi |-> i, result |-> None]

\* The restoring block entered although no original branch was recorded
AfterBranch_RestoreAnyway(i, branches, orig) ==
    IF i < Len(branches) THEN [pc |-> "checkout", bi |-> i + 1, result |-> None]
    ELSE [pc |-> "get_after", bi |-> i, result |-> None]

\* Where process_project goes once branch i of the explicit list is dealt with:
\* the next listed branch, or the code after the for loop.  With no original
\* branch recorded the restoring block is skipped and the function returns Ok.
AfterBranch(i, branches, orig) ==
    IF i < Len(branches) THEN [pc |-> "checkout", bi |-> i + 1, result |-> None]
    ELSE IF orig = None THEN [pc |-> "return", bi |-> i, result |-> "Ok"]
    ELSE [pc |-> "get_after", bi |-> i, result |-> None]

\* The failed checkout attempted again
AfterCheckoutError_Retry(i, branches, orig) ==
    [pc |-> "checkout", bi |-> i, result |-> None]

\* The checkout error propagated with `?`
AfterCheckoutError_Abort(i, branches, orig) ==
    [pc |-> "return", bi |-> i, result |-> "GitOperation"]

\* The Err(e) arm of match checkout_branch(..): the error is logged and the for
\* loop goes on
AfterCheckoutError(i, branches, orig) == AfterBranch(i, branches, orig)

\* Only a non-zero exit of git rev-parse treated as an error
CurrentBranch_LaunchIgnored(outcome, st) ==
    IF outcome # "failed" THEN st.head ELSE None

\* Ok(stdout) of get_current_branch is the checked-out branch; Err becomes None
\* where the caller uses .ok() or matches Err
CurrentBranch(outcome, st) == IF outcome = "ok" THEN st.head ELSE None

\* The restoring block entered whatever the two branches are
RestoreNeeded_Always(current_after, orig) == TRUE

\* The restoring block never entered
RestoreNeeded_Never(current_after, orig) == FALSE

\* The restoring block entered only when the branch after the list is known
RestoreNeeded_KnownOnly(current_after, orig) ==
    current_after # None /\ current_after # orig

\* if current_branch_after_pulls.as_deref() != Some(&orig_branch_name)
RestoreNeeded(current_after, orig) == current_after # orig

\* The path tested for existence instead of for its .git directory
IsGitRepo_Exists(st) == st.kind \in {"dir", "repo"}

\* is_git_repo: path.join(".git").is_dir()
IsGitRepo(st) == st.kind = "repo"

\* The error of the restoring checkout returned instead of logged
AfterRestore_Propagate(outcome) == IF outcome = "ok" THEN "Ok" ELSE "GitOperation"

\* if let Err(e) = checkout_branch(orig) { log warning }; then Ok(())
AfterRestore(outcome) == "Ok"

\* Which branch of "Git Pull Section" is taken
HasBranchPlan(cfg) == cfg.pull_branches.some /\ cfg.pull_branches.list # <<>>

\* git pull origin <branch> for Some(branch), plain git pull for None
PullOp_AlwaysOrigin(site, path, branch_to_pull, ok) ==
    GitOp(site, "pull", "", path,
          IF branch_to_pull = None THEN "main" ELSE branch_to_pull, ok)

PullOp(site, path, branch_to_pull, ok) ==
    GitOp(site, "pull", "", path, branch_to_pull, ok)

\* git clone given the configured path instead of the resolved one
CloneOp_ConfigPath(cfg, path, ok) ==
    GitOp("clone", "clone", cfg.url, cfg.path, None, ok)

\* The arguments clone_repo passes to git clone
CloneOp(cfg, path, ok) == GitOp("clone", "clone", cfg.url, path, None, ok)

\* for project_config in app_config.projects { process_project(...) }: the loop
\* takes the next configuration entry and process_project resolves its path
ProcessProjectBegin ==
    /\ Alive /\ pc = "loop" /\ idx < n
    /\ \E cfg \in ProjectConfigs, st \in PathStates :
         /\ config' = cfg
         /\ project_path' = ResolveProjectPath(ParentCloneDir, cfg.path)
         /\ fs' = st
         /\ found' = st
    /\ idx' = idx + 1
    /\ calls' = [calls EXCEPT ![idx + 1] = @ + 1]
    /\ pc' = "exists"
    /\ UNCHANGED <<n, original_branch, bi, result, encountered_project_error,
                   finish_message, errors, ops, last, intr,
                   doc, pull_call, path_call, main_result, spawned, inflight, events>>

\* The clone skipped only for a path that is a repository
CheckExists_RepoOnly ==
    /\ Alive /\ pc = "exists"
    /\ pc' = IF fs.kind # "repo" THEN "create_dirs" ELSE "verify"
    /\ UNCHANGED <<n, idx, config, project_path, found, fs, original_branch, bi,
                   result,
                   encountered_project_error, finish_message, calls, errors, ops,
                   last, intr,
                   doc, pull_call, path_call, main_result, spawned, inflight, events>>

\* if !project_path.exists() { ... } else { ... }
CheckExists ==
    /\ Alive /\ pc = "exists"
    /\ pc' = IF fs.kind \in {"noparent", "absent"} THEN "create_dirs" ELSE "verify"
    /\ UNCHANGED <<n, idx, config, project_path, found, fs, original_branch, bi,
                   result,
                   encountered_project_error, finish_message, calls, errors, ops,
                   last, intr,
                   doc, pull_call, path_call, main_result, spawned, inflight, events>>

\* if !parent.exists() { fs::create_dir_all(parent).map_err(CreateDirs)? }
CreateDirs ==
    /\ Alive /\ pc = "create_dirs"
    /\ \E created \in BOOLEAN :
         IF fs.kind = "absent" \/ created
         THEN /\ fs' = [fs EXCEPT !.kind = "absent"]
              /\ pc' = "clone"
              /\ result' = result
         ELSE /\ fs' = fs
              /\ pc' = "return"
              /\ result' = "CreateDirs"
    /\ UNCHANGED <<n, idx, config, project_path, found, original_branch, bi,
                   encountered_project_error, finish_message, calls, errors, ops,
                   last, intr,
                   doc, pull_call, path_call, main_result, spawned, inflight, events>>

\* The error of clone_repo dropped: process_project goes on to the repository
\* check
CloneRepo_IgnoreFailure ==
    /\ Alive /\ pc = "clone"
    /\ \E o \in Outcomes :
         /\ OutputReturns(o)
         /\ events' = CloneEvents(o)
         /\ ops' = Append(ops, CloneOp(config, project_path, o = "ok"))
         /\ last' = [op |-> "clone", outcome |-> o]
         /\ IF o = "ok"
            THEN \E h \in Branches : fs' = [kind |-> "repo", head |-> h]
            ELSE fs' = fs
         /\ pc' = "verify"
         /\ result' = result
    /\ UNCHANGED <<n, idx, config, project_path, found, original_branch, bi,
                   encountered_project_error, finish_message, calls, errors, intr,
                   doc, pull_call, path_call, main_result>>

\* process_project returning Ok as soon as the clone has succeeded
CloneRepo_FinishAfterClone ==
    /\ Alive /\ pc = "clone"
    /\ \E o \in Outcomes :
         /\ OutputReturns(o)
         /\ events' = CloneEvents(o)
         /\ ops' = Append(ops, CloneOp(config, project_path, o = "ok"))
         /\ last' = [op |-> "clone", outcome |-> o]
         /\ IF o = "ok"
            THEN /\ \E h \in Branches : fs' = [kind |-> "repo", head |-> h]
                 /\ result' = "Ok"
            ELSE /\ fs' = fs
                 /\ result' = "GitOperation"
         /\ pc' = "return"
    /\ UNCHANGED <<n, idx, config, project_path, found, original_branch, bi,
                   encountered_project_error, finish_message, calls, errors, intr,
                   doc, pull_call, path_call, main_result>>

\* clone_repo(...).map_err(GitOperation)?
CloneRepo ==
    /\ Alive /\ pc = "clone"
    /\ \E o \in Outcomes :
         /\ OutputReturns(o)
         /\ events' = CloneEvents(o)
         /\ ops' = Append(ops, CloneOp(config, project_path, o = "ok"))
         /\ last' = [op |-> "clone", outcome |-> o]
         /\ IF o = "ok"
            THEN /\ \E h \in Branches : fs' = [kind |-> "repo", head |-> h]
                 /\ pc' = "verify"
                 /\ result' = result
            ELSE /\ fs' = fs
                 /\ pc' = "return"
                 /\ result' = "GitOperation"
    /\ UNCHANGED <<n, idx, config, project_path, found, original_branch, bi,
                   encountered_project_error, finish_message, calls, errors, intr,
                   doc, pull_call, path_call, main_result>>

\* if !is_git_repo(&project_path) { return Err(NotGitRepository) }, then the
\* choice between the explicit list and the pull of the current branch
VerifyRepo ==
    /\ Alive /\ pc = "verify"
    /\ IF ~IsGitRepo(fs)
       THEN pc' = "return" /\ result' = "NotGitRepository"
       ELSE /\ pc' = IF HasBranchPlan(config) THEN "get_original" ELSE "log_current"
            /\ result' = result
    /\ UNCHANGED <<n, idx, config, project_path, found, fs, original_branch, bi,
                   encountered_project_error, finish_message, calls, errors, ops,
                   last, intr,
                   doc, pull_call, path_call, main_result, spawned, inflight, events>>

\* let original_branch = match get_current_branch(..) { Ok(b) => Some(b), Err => None }
GetOriginalBranch ==
    /\ Alive /\ pc = "get_original"
    /\ \E o \in Outcomes :
         /\ OutputReturns(o)
         /\ events' = OriginalBranchEvents(o)
         /\ ops' = Append(ops, GitOp("original", "rev-parse", "", project_path, None,
                                     o = "ok"))
         /\ last' = [op |-> "rev-parse", outcome |-> o]
         /\ original_branch' = CurrentBranch(o, fs)
    /\ bi' = 1
    /\ pc' = "checkout"
    /\ UNCHANGED <<n, idx, config, project_path, found, fs, result,
                   encountered_project_error, finish_message, calls, errors, intr,
                   doc, pull_call, path_call, main_result>>

\* match checkout_branch(branch_name) { Ok => pull..., Err => log }
CheckoutBranch ==
    /\ Alive /\ pc = "checkout"
    /\ LET branch == config.pull_branches.list[bi] IN
       \E o \in Outcomes :
         /\ OutputReturns(o)
         /\ events' = ListCheckoutEvents(o)
         /\ ops' = Append(ops, GitOp("list", "checkout", "", project_path, branch,
                                     o = "ok"))
         /\ last' = [op |-> "checkout", outcome |-> o]
         /\ IF o = "ok"
            THEN /\ fs' = CheckedOut(fs, branch)
                 /\ pc' = "pull"
                 /\ bi' = bi
                 /\ result' = result
            ELSE LET nxt == AfterCheckoutError(bi, config.pull_branches.list,
                                               original_branch) IN
                 /\ fs' = fs
                 /\ pc' = nxt.pc
                 /\ bi' = nxt.bi
                 /\ result' = nxt.result
    /\ UNCHANGED <<n, idx, config, project_path, found, original_branch,
                   encountered_project_error, finish_message, calls, errors, intr,
                   doc, pull_call, path_call, main_result>>

\* if let Err(e) = pull_branch_updates(Some(branch_name)) { log }
PullBranch ==
    /\ Alive /\ pc = "pull"
    /\ LET branch == config.pull_branches.list[bi]
           nxt == AfterBranch(bi, config.pull_branches.list, original_branch) IN
       /\ \E o \in Outcomes :
            /\ OutputReturns(o)
            /\ events' = ListPullEvents(o)
            /\ ops' = Append(ops, PullOp("list", project_path, branch, o = "ok"))
            /\ last' = [op |-> "pull", outcome |-> o]
       /\ pc' = nxt.pc
       /\ bi' = nxt.bi
       /\ result' = nxt.result
    /\ UNCHANGED <<n, idx, config, project_path, found, fs, original_branch,
                   encountered_project_error, finish_message, calls, errors, intr,
                   doc, pull_call, path_call, main_result>>

\* let current_branch_after_pulls = get_current_branch(..).ok();
\* if current_branch_after_pulls != Some(orig) { restore } else { log }
GetBranchAfterPulls ==
    /\ Alive /\ pc = "get_after"
    /\ \E o \in Outcomes :
         /\ OutputReturns(o)
         /\ events' = AfterPullsEvents(o, RestoreNeeded(CurrentBranch(o, fs),
                                                       original_branch))
         /\ ops' = Append(ops, GitOp("after", "rev-parse", "", project_path, None,
                                     o = "ok"))
         /\ last' = [op |-> "rev-parse", outcome |-> o]
         /\ IF RestoreNeeded(CurrentBranch(o, fs), original_branch)
            THEN pc' = "restore" /\ result' = result
            ELSE pc' = "return" /\ result' = "Ok"
    /\ UNCHANGED <<n, idx, config, project_path, found, fs, original_branch, bi,
                   encountered_project_error, finish_message, calls, errors, intr,
                   doc, pull_call, path_call, main_result>>

\* if let Err(e) = checkout_branch(&orig_branch_name) { log warning }
RestoreOriginalBranch ==
    /\ Alive /\ pc = "restore"
    /\ \E o \in Outcomes :
         /\ OutputReturns(o)
         /\ events' = RestoreEvents(o)
         /\ ops' = Append(ops, GitOp("restore", "checkout", "", project_path,
                                     original_branch, o = "ok"))
         /\ last' = [op |-> "checkout", outcome |-> o]
         /\ fs' = IF o = "ok" THEN CheckedOut(fs, original_branch) ELSE fs
         /\ result' = AfterRestore(o)
    /\ pc' = "return"
    /\ UNCHANGED <<n, idx, config, project_path, found, original_branch, bi,
                   encountered_project_error, finish_message, calls, errors, intr,
                   doc, pull_call, path_call, main_result>>

\* get_current_branch(..).unwrap_or_else(|_| "current") for the log line
LogCurrentBranch ==
    /\ Alive /\ pc = "log_current"
    /\ \E o \in Outcomes :
         /\ OutputReturns(o)
         /\ events' = LogCurrentEvents(o)
         /\ ops' = Append(ops, GitOp("log", "rev-parse", "", project_path, None,
                                     o = "ok"))
         /\ last' = [op |-> "rev-parse", outcome |-> o]
    /\ pc' = "pull_current"
    /\ UNCHANGED <<n, idx, config, project_path, found, fs, original_branch, bi,
                   result,
                   encountered_project_error, finish_message, calls, errors, intr,
                   doc, pull_call, path_call, main_result>>

\* if let Err(e) = pull_branch_updates(None) { log warning }
PullCurrentBranch ==
    /\ Alive /\ pc = "pull_current"
    /\ \E o \in Outcomes :
         /\ OutputReturns(o)
         /\ events' = CurrentPullEvents(o)
         /\ ops' = Append(ops, PullOp("current", project_path, None, o = "ok"))
         /\ last' = [op |-> "pull", outcome |-> o]
    /\ pc' = "return"
    /\ result' = "Ok"
    /\ UNCHANGED <<n, idx, config, project_path, found, fs, original_branch, bi,
                   encountered_project_error, finish_message, calls, errors, intr,
                   doc, pull_call, path_call, main_result>>

\* ----------------------------------------------------------------------- main
\* The error returned from main with `?`
AfterProject_Propagate(res) == IF res = "Ok" THEN "loop" ELSE "done"

\* Both arms of the match fall through to overall_progress_bar.inc(1) and the
\* next iteration
AfterProject(res) == "loop"

\* The flag assigned from the latest project alone
ProjectDone_LastWins ==
    /\ Alive /\ pc = "return"
    /\ encountered_project_error' = (result # "Ok")
    /\ errors' = IF result # "Ok" THEN errors \cup {idx} ELSE errors
    /\ pc' = AfterProject(result)
    /\ config' = NoConfig
    /\ project_path' = <<>>
    /\ fs' = NoPath
    /\ found' = NoPath
    /\ original_branch' = None
    /\ bi' = 0
    /\ result' = None
    /\ ops' = <<>>
    /\ last' = NoCmd
    /\ events' = << >>
    /\ UNCHANGED <<n, idx, finish_message, calls, intr,
                   doc, pull_call, path_call, main_result, spawned, inflight>>

\* match process_project(..) { Ok(_) => .., Err(e) => encountered_project_error = true }
\* followed by the end of the loop body, where the iteration's values are dropped
ProjectDone ==
    /\ Alive /\ pc = "return"
    /\ encountered_project_error' = (encountered_project_error \/ result # "Ok")
    /\ errors' = IF result # "Ok" THEN errors \cup {idx} ELSE errors
    /\ pc' = AfterProject(result)
    /\ config' = NoConfig
    /\ project_path' = <<>>
    /\ fs' = NoPath
    /\ found' = NoPath
    /\ original_branch' = None
    /\ bi' = 0
    /\ result' = None
    /\ ops' = <<>>
    /\ last' = NoCmd
    /\ events' = << >>
    /\ UNCHANGED <<n, idx, finish_message, calls, intr,
                   doc, pull_call, path_call, main_result, spawned, inflight>>

\* An error returned when a project failed
MainResult_FailOnError(flag) == IF flag THEN "Project" ELSE "Ok"

\* The Ok(()) that ends main, after either finish message
MainResult(flag) == "Ok"

\* if encountered_project_error { finish_with_message(..errors..) } else { .. }; Ok(())
FinishRun ==
    /\ Alive /\ pc = "loop" /\ idx = n
    /\ finish_message' = IF encountered_project_error THEN "some_errors" ELSE "all_ok"
    /\ main_result' = MainResult(encountered_project_error)
    /\ pc' = "done"
    /\ UNCHANGED <<n, idx, config, project_path, found, fs, original_branch, bi,
                   result,
                   encountered_project_error, calls, errors, ops, last, intr,
                   doc, pull_call, path_call, spawned, inflight, events>>

\* -------------------------------------------------------------- Ctrl+C handler
\* The handler closure starts on its own thread when the signal arrives
Interrupt ==
    /\ intr = "none" /\ pc \notin {"start", "done", "failed"}
    /\ intr' = "received"
    /\ UNCHANGED <<n, idx, config, pc, project_path, found, fs, original_branch, bi,
                   result, encountered_project_error, finish_message, calls, errors,
                   ops, last,
                   doc, pull_call, path_call, main_result, spawned, inflight, events>>

\* ... and ends the process with std::process::exit(0) after its messages
HandlerExit ==
    /\ intr = "received" /\ pc \notin {"done", "failed"}
    /\ intr' = "exited"
    /\ UNCHANGED <<n, idx, config, pc, project_path, found, fs, original_branch, bi,
                   result, encountered_project_error, finish_message, calls, errors,
                   ops, last,
                   doc, pull_call, path_call, main_result, spawned, inflight, events>>

Next ==
    \/ SetHandler
    \/ LoadConfig
    \/ CurrentDir
    \/ Spawn
    \/ ProcessProjectBegin
    \/ CheckExists
    \/ CreateDirs
    \/ CloneRepo
    \/ VerifyRepo
    \/ GetOriginalBranch
    \/ CheckoutBranch
    \/ PullBranch
    \/ GetBranchAfterPulls
    \/ RestoreOriginalBranch
    \/ LogCurrentBranch
    \/ PullCurrentBranch
    \/ ProjectDone
    \/ FinishRun
    \/ Interrupt
    \/ HandlerExit

Spec == Init /\ [][Next]_vars

\* ------------------------------------------- pull_branch_updates on its own
\* One call of pull_branch_updates with any outcome of git pull, any captured
\* output and any branch argument; the rest of the program is idle
InitPull ==
    /\ pull_call \in { [stdout |-> s, outcome |-> o, branch |-> b, report |-> NoReport] :
                          s \in Stdouts, o \in Outcomes, b \in Branches \cup {None} }
    /\ doc = [file |-> "missing", projects |-> << >>]
    /\ n = 0
    /\ idx = 0
    /\ config = NoConfig
    /\ pc = "start"
    /\ project_path = <<>>
    /\ fs = NoPath
    /\ found = NoPath
    /\ original_branch = None
    /\ bi = 0
    /\ result = None
    /\ encountered_project_error = FALSE
    /\ finish_message = None
    /\ calls = << >>
    /\ errors = {}
    /\ ops = <<>>
    /\ last = NoCmd
    /\ intr = "none"
    /\ main_result = None
    /\ spawned = FALSE
    /\ inflight = 0
    /\ path_call = NoPathCall
    /\ events = << >>

PullBranchUpdates ==
    /\ pull_call.report = NoReport
    /\ pull_call' = [pull_call EXCEPT
                        !.report = PullReport(pull_call.outcome, pull_call.stdout,
                                              pull_call.branch)]
    /\ UNCHANGED <<n, idx, config, pc, project_path, fs, found, original_branch, bi,
                   result, encountered_project_error, finish_message, calls, errors,
                   ops, last, intr, doc, main_result, spawned, inflight, path_call, events>>

NextPull == PullBranchUpdates

SpecPull == InitPull /\ [][NextPull]_vars

\* ------------------------------------------------- path resolution on its own
\* main chooses the effective parent directory from the configuration, then
\* process_project resolves the target path of one entry against it; the rest
\* of the program is idle
InitPaths ==
    /\ path_call \in { [stage |-> "config", global_config |-> g,
                         config_file_dir |-> d, path |-> q,
                         effective_parent_dir |-> <<>>, project_path |-> <<>>] :
                          g \in GlobalConfigs, d \in ConfigFileDirs, q \in ProjectPaths }
    /\ events = << >>
    /\ pull_call = NoPullCall
    /\ doc = [file |-> "missing", projects |-> << >>]
    /\ n = 0
    /\ idx = 0
    /\ config = NoConfig
    /\ pc = "start"
    /\ project_path = <<>>
    /\ fs = NoPath
    /\ found = NoPath
    /\ original_branch = None
    /\ bi = 0
    /\ result = None
    /\ encountered_project_error = FALSE
    /\ finish_message = None
    /\ calls = << >>
    /\ errors = {}
    /\ ops = <<>>
    /\ last = NoCmd
    /\ intr = "none"
    /\ main_result = None
    /\ spawned = FALSE
    /\ inflight = 0

\* let effective_parent_dir_for_cloning = app_config.global_config ... map_or_else(..)
ChooseParentDir ==
    /\ path_call.stage = "config"
    /\ path_call' = [path_call EXCEPT
                        !.stage = "parent",
                        !.effective_parent_dir =
                            EffectiveParentDir(path_call.global_config,
                                               path_call.config_file_dir, AppCwd)]
    /\ UNCHANGED <<n, idx, config, pc, project_path, fs, found, original_branch, bi,
                   result, encountered_project_error, finish_message, calls, errors,
                   ops, last, intr, doc, main_result, spawned, inflight, pull_call, events>>

\* process_project: let project_path = if .. is_absolute() { .. } else { .. join(..) }
ResolvePath ==
    /\ path_call.stage = "parent"
    /\ path_call' = [path_call EXCEPT
                        !.stage = "resolved",
                        !.project_path =
                            ResolveProjectPath(path_call.effective_parent_dir,
                                               path_call.path)]
    /\ UNCHANGED <<n, idx, config, pc, project_path, fs, found, original_branch, bi,
                   result, encountered_project_error, finish_message, calls, errors,
                   ops, last, intr, doc, main_result, spawned, inflight, pull_call, events>>

NextPaths == ChooseParentDir \/ ResolvePath

SpecPaths == InitPaths /\ [][NextPaths]_vars

\* ===================================================================== claims
\* process_project is about to return `result` to main
Completed == pc = "return"

BranchList == config.pull_branches.list

\* The git subprocesses of the current call issued at one call site
OpsAt(site) == LET AtSite(o) == o.site = site IN SelectSeq(ops, AtSite)

\* The checkouts and pulls of the current call, as <<command, branch>>
CheckoutsAndPulls ==
    LET IsCP(o) == o.op \in {"checkout", "pull"}
        cp == SelectSeq(ops, IsCP)
    IN  [k \in 1..Len(cp) |-> <<cp[k].op, cp[k].branch>>]

\* checkout(b1), pull(b1), ..., checkout(bn), pull(bn)
PlanOf(list) ==
    [k \in 1..(2 * Len(list)) |->
        IF k % 2 = 1 THEN <<"checkout", list[(k + 1) \div 2]>>
                     ELSE <<"pull", list[k \div 2]>>]

ListedCheckoutsOk ==
    \A k \in 1..Len(ops) :
        (ops[k].site = "list" /\ ops[k].op = "checkout") => ops[k].ok

AfterQueryFailed == \E k \in 1..Len(ops) : ops[k].site = "after" /\ ~ops[k].ok

\* C1 as stated: with an explicit list whose checkouts all succeed, the
\* checkouts and pulls issued are exactly checkout(b1), pull(b1), ...,
\* checkout(bn), pull(bn), followed by one checkout of the original branch if
\* and only if that branch was recorded and differs from the branch checked out
\* after the list (bn).
C1_Original ==
    (Completed /\ result = "Ok" /\ HasBranchPlan(config) /\ ListedCheckoutsOk) =>
        CheckoutsAndPulls =
            PlanOf(BranchList) \o
            (IF original_branch # None /\ original_branch # BranchList[Len(BranchList)]
             THEN << <<"checkout", original_branch>> >> ELSE << >>)

\* C1 amended: as C1, where the final checkout of the original branch is also
\* issued when the current-branch query after the list fails.
C1_OrderedPlan ==
    (Completed /\ result = "Ok" /\ HasBranchPlan(config) /\ ListedCheckoutsOk) =>
        CheckoutsAndPulls =
            PlanOf(BranchList) \o
            (IF /\ original_branch # None
                /\ \/ original_branch # BranchList[Len(BranchList)]
                   \/ AfterQueryFailed
             THEN << <<"checkout", original_branch>> >> ELSE << >>)

C1_Witness ==
    /\ Completed /\ result = "Ok" /\ ListedCheckoutsOk
    /\ BranchList = <<"main", "dev">>
    /\ original_branch = "main"
    /\ CheckoutsAndPulls = << <<"checkout", "main">>, <<"pull", "main">>,
                              <<"checkout", "dev">>, <<"pull", "dev">>,
                              <<"checkout", "main">> >>

\* The explicit list was entered: the original branch was queried
PlanStarted == OpsAt("original") # << >>

\* The listed branches are each checked out once, in order, and a branch is
\* pulled exactly when its checkout succeeded
PlanFollowed ==
    LET l == OpsAt("list")
        IsCheckout(o) == o.op = "checkout"
        co == SelectSeq(l, IsCheckout)
    IN  /\ [k \in 1..Len(co) |-> co[k].branch] = BranchList
        /\ \A k \in 1..Len(l) :
             /\ l[k].op = "checkout" =>
                  (l[k].ok <=> (k < Len(l) /\ l[k + 1].op = "pull"))
             /\ l[k].op = "pull" =>
                  (k > 1 /\ l[k - 1].op = "checkout" /\ l[k - 1].ok
                         /\ l[k - 1].branch = l[k].branch)

\* C2: in an explicit list every listed branch has its checkout attempted, in
\* order, whatever the earlier checkouts and pulls did; a branch whose checkout
\* failed is not pulled, a branch whose checkout succeeded is.
C2_BranchFailureIsolated ==
    (Completed /\ PlanStarted) => PlanFollowed

C2_Witness ==
    /\ Completed /\ result = "Ok"
    /\ BranchList = <<"main", "dev">>
    /\ LET l == OpsAt("list") IN
       /\ Len(l) = 3
       /\ l[1].op = "checkout" /\ l[1].branch = "main" /\ ~l[1].ok
       /\ l[2].op = "checkout" /\ l[2].branch = "dev" /\ l[2].ok
       /\ l[3].op = "pull" /\ l[3].branch = "dev" /\ ~l[3].ok

\* C3: the loop calls process_project once for every project of the list, in
\* order, and an error returned for one project is recorded without keeping
\* the later projects from being processed: the run only finishes after all n.
C3_EveryProjectOnce ==
    /\ \A i \in 1..n : calls[i] = IF i <= idx THEN 1 ELSE 0
    /\ errors \subseteq 1..idx
    /\ pc = "done" => idx = n

C3_Witness ==
    /\ pc = "done" /\ n = 2
    /\ errors = {1}
    /\ calls = <<1, 1>>

PathMissing == found.kind \in {"noparent", "absent"}

\* The clone, when one was issued, is the first git subprocess of the call, has
\* the configured URL and the resolved path, is the only clone, and nothing
\* follows it unless it succeeded
CloneFirst ==
    /\ ops # << >> =>
         /\ ops[1].op = "clone"
         /\ ops[1].url = config.url
         /\ ops[1].path = project_path
    /\ Len(ops) > 1 => ops[1].ok
    /\ \A k \in 2..Len(ops) : ops[k].op # "clone"

\* C4 as stated: a project whose path does not exist gets exactly one clone,
\* with the configured URL and the resolved path, and no other git subprocess
\* before that clone succeeded.
C4_Original ==
    PathMissing => (CloneFirst /\ (Completed => ops # << >>))

\* C4 amended: a project whose path does not exist gets at most one clone, and
\* exactly one unless creating the parent directories failed (then no git
\* subprocess at all); the clone has the configured URL and the resolved path
\* and no other git subprocess is issued before it succeeded.
C4_CloneBeforeSync ==
    PathMissing =>
        /\ CloneFirst
        /\ Completed => (ops # << >> <=> result # "CreateDirs")

C4_Witness ==
    /\ Completed /\ found.kind = "noparent"
    /\ config.path = <<"~", "app">>
    /\ Len(ops) > 1
    /\ ops[1].op = "clone" /\ ops[1].ok
    /\ ops[1].path = <<"/", "home", "app">>

\* C5: with pull_branches omitted or empty, a valid repository gets no
\* checkout and exactly one pull, the un-targeted one; after the clone (if
\* any) both cases issue the same two subprocesses, the current-branch query
\* and the pull.
C5_CurrentBranchPullOnly ==
    (Completed /\ result = "Ok" /\ ~HasBranchPlan(config)) =>
        /\ CheckoutsAndPulls = << <<"pull", None>> >>
        /\ LET NotClone(o) == o.op # "clone"
               rest == SelectSeq(ops, NotClone)
           IN  [k \in 1..Len(rest) |-> <<rest[k].op, rest[k].branch>>]
                   = << <<"rev-parse", None>>, <<"pull", None>> >>

C5_Witness ==
    /\ Completed /\ result = "Ok"
    /\ config.pull_branches = [some |-> TRUE, list |-> << >>]
    /\ found.kind = "repo"
    /\ Len(ops) = 2 /\ ops[2].op = "pull" /\ ~ops[2].ok

\* C6: once the interrupt is received no further git subprocess is started.
C6_NoGitAfterInterrupt ==
    [][Len(ops') > Len(ops) => intr = "none"]_vars

IsSyncOp(o) == o.op \in {"rev-parse", "checkout", "pull"}

C8_BranchFailuresNotFatal ==
    Completed =>
        /\ fs.kind = "repo" => result = "Ok"
        /\ result # "Ok" => \A k \in 1..Len(ops) : ~IsSyncOp(ops[k])

C8_Witness ==
    /\ Completed /\ result = "Ok"
    /\ \E k \in 1..Len(ops) : ops[k].site = "list" /\ ops[k].op = "checkout" /\ ~ops[k].ok
    /\ \E k \in 1..Len(ops) : ops[k].site = "list" /\ ops[k].op = "pull" /\ ~ops[k].ok
    /\ \E k \in 1..Len(ops) : ops[k].site = "restore" /\ ~ops[k].ok

RestoreOps == OpsAt("restore")

\* C9 as stated: the restoring checkout is attempted exactly when the original
\* branch was determined and the branch checked out after the list differs
\* from it, and at most once.
C9_Original ==
    /\ pc = "restore" => (original_branch # None /\ fs.head # original_branch)
    /\ (Completed /\ result = "Ok" /\ HasBranchPlan(config) /\ RestoreOps = << >>)
          => (original_branch = None \/ fs.head = original_branch)
    /\ Len(RestoreOps) <= 1
    /\ \A k \in 1..Len(RestoreOps) :
          RestoreOps[k].op = "checkout" /\ RestoreOps[k].branch = original_branch

\* C9 amended: the restoring checkout is attempted exactly when the original
\* branch was determined and the current-branch query after the list either
\* fails or reports a branch other than the original; it is attempted at most
\* once, and not at all when that query reports the original branch.
C9_RestoreWhenDiffers ==
    /\ pc = "restore" =>
          /\ original_branch # None
          /\ (fs.head # original_branch \/ AfterQueryFailed)
    /\ (Completed /\ result = "Ok" /\ HasBranchPlan(config) /\ RestoreOps = << >>)
          => \/ original_branch = None
             \/ (fs.head = original_branch /\ ~AfterQueryFailed)
    /\ Len(RestoreOps) <= 1
    /\ \A k \in 1..Len(RestoreOps) :
          RestoreOps[k].op = "checkout" /\ RestoreOps[k].branch = original_branch

C9_Witness ==
    /\ Completed /\ result = "Ok"
    /\ BranchList = <<"dev", "main">>
    /\ found.head = "main" /\ original_branch = "main"
    /\ ListedCheckoutsOk /\ Len(OpsAt("list")) = 4
    /\ fs.head = "main"
    /\ RestoreOps = << >>

OriginalQueryFailed ==
    \E k \in 1..Len(ops) : ops[k].site = "original" /\ ~ops[k].ok

\* C10: when the current branch cannot be determined before an explicit list,
\* the listed branches are still checked out and pulled as usual, no restoring
\* checkout (and no other checkout) is issued, and the repository stays on the
\* branch of the last successful checkout (on the branch it was found on when
\* no checkout succeeded).
C10_UnknownOriginalNoRestore ==
    (Completed /\ OriginalQueryFailed) =>
        /\ original_branch = None
        /\ PlanFollowed
        /\ RestoreOps = << >>
        /\ Len(CheckoutsAndPulls) = Len(OpsAt("list"))
        /\ LET OkCheckout(o) == o.op = "checkout" /\ o.ok
               co == SelectSeq(ops, OkCheckout)
           IN  IF co # << >> THEN fs.head = co[Len(co)].branch
               ELSE found.kind = "repo" => fs.head = found.head

C10_Witness ==
    /\ Completed /\ result = "Ok" /\ OriginalQueryFailed
    /\ BranchList = <<"main", "dev">>
    /\ found.head = "main"
    /\ ListedCheckoutsOk
    /\ fs.head = "dev"

\* The restoring checkout, if one was issued, succeeded
RestoreSucceeded == \A k \in 1..Len(RestoreOps) : RestoreOps[k].ok

CloneFailed == \E k \in 1..Len(ops) : ops[k].op = "clone" /\ ~ops[k].ok

\* C12: when the parent directory of a missing target cannot be created,
\* process_project returns ProjectError::CreateDirs without having run git
\* clone (or any other git command); when git clone exits non-zero or cannot be
\* launched, process_project returns ProjectError::GitOperation and the failed
\* clone is its only git subprocess: no repository check, branch query,
\* checkout or pull follows.
C12_SetupFailuresAbort ==
    /\ (Completed /\ found.kind = "noparent" /\ fs.kind = "noparent") =>
           result = "CreateDirs"
    /\ result = "CreateDirs" =>
           Completed /\ found.kind = "noparent" /\ ops = << >>
    /\ CloneFailed =>
           /\ Completed /\ result = "GitOperation"
           /\ Len(ops) = 1
           /\ fs.kind = "absent"

C12_Witness ==
    /\ Completed /\ result = "GitOperation"
    /\ found.kind = "noparent"
    /\ Len(ops) = 1 /\ ops[1].op = "clone" /\ ~ops[1].ok
    /\ last = [op |-> "clone", outcome |-> "launch"]

\* The configuration file exists, is readable, parses, lists at least one
\* project and every entry has a non-empty project name, url and path
ValidDoc ==
    /\ doc.file = "ok"
    /\ doc.projects # << >>
    /\ \A i \in 1..Len(doc.projects) :
          doc.projects[i].project /\ doc.projects[i].url /\ doc.projects[i].path

\* C13: if the configuration file is missing, unreadable or malformed, if its
\* project list is empty, or if any entry at any position has an empty project
\* name, url or path, then main never gets past load_config_from_file: once
\* main has left the loading step it has returned an error (AppError::Config,
\* or the handler set-up error before loading), no project is ever taken by the
\* loop and no git subprocess is started for any project.
C13_ConfigErrorsStopRun ==
    ~ValidDoc =>
        /\ pc \in {"start", "load", "failed"}
        /\ pc = "failed" => main_result \in {"CtrlCSetup", "Config"}
        /\ main_result # "Ok"
        /\ idx = 0 /\ calls = << >>
        /\ ops = << >> /\ inflight = 0 /\ ~spawned

C13_Witness ==
    /\ pc = "failed" /\ main_result = "Config"
    /\ doc.file = "ok" /\ Len(doc.projects) = 2
    /\ doc.projects[1] = [project |-> TRUE, url |-> TRUE, path |-> TRUE]
    /\ doc.projects[2] = [project |-> TRUE, url |-> TRUE, path |-> FALSE]
    /\ idx = 0 /\ ops = << >>

\* C14: the "any failure occurred" flag of main is exact: it is true if and
\* only if process_project returned a ProjectError for at least one project
\* handled so far (in particular at the end of the loop); a step never resets
\* it from true to false; and the final message is the "some errors" message
\* exactly when a project returned an error, the "all processed successfully"
\* message otherwise.
C14_FailureFlagExact ==
    /\ [](/\ encountered_project_error <=> (errors # {})
          /\ pc = "done" =>
                finish_message = IF errors # {} THEN "some_errors" ELSE "all_ok"
          /\ pc # "done" => finish_message = None)
    /\ [][encountered_project_error => encountered_project_error']_vars

C14_Witness ==
    /\ pc = "done" /\ n = 2 /\ idx = 2
    /\ errors = {1}
    /\ encountered_project_error
    /\ finish_message = "some_errors"

\* The step taken is a git subprocess issued at `site` that could not be
\* launched
LaunchFailedAt(site, op) ==
    /\ Len(ops') = Len(ops) + 1
    /\ ops'[Len(ops')].site = site
    /\ last' = [op |-> op, outcome |-> "launch"]

\* C15 as stated: when a git subprocess of process_project could not be
\* launched, the enclosing project step fails: process_project does not return
\* Ok straight after an operation that failed to launch.
C15_Original == (Completed /\ last.outcome = "launch") => result # "Ok"

\* C15 amended: a launch failure is fatal to the git operation that attempted
\* it (the operation is recorded as failed and changes nothing on disk) and
\* process_project reacts as to a non-zero exit: only a failed clone makes it
\* return an error (GitOperation); a listed checkout that cannot be launched
\* skips that branch's pull and goes on; a pull that cannot be launched is
\* logged and processing goes on; a current-branch query that cannot be
\* launched leaves the branch unknown (before the list: no original branch
\* recorded; after the list: the restoring checkout is attempted); a restoring
\* checkout that cannot be launched still ends in Ok.
C15_LaunchFailureHandled ==
    [][/\ (Len(ops') = Len(ops) + 1 /\ last'.outcome = "launch") =>
             /\ ~ops'[Len(ops')].ok
             /\ fs' = fs
       /\ LaunchFailedAt("clone", "clone") =>
             pc' = "return" /\ result' = "GitOperation"
       /\ LaunchFailedAt("original", "rev-parse") =>
             original_branch' = None /\ pc' = "checkout" /\ result' = None
       /\ LaunchFailedAt("list", "checkout") =>
             /\ pc' \in {"checkout", "get_after", "return"}
             /\ pc' = "checkout" => bi' = bi + 1
             /\ result' = IF pc' = "return" THEN "Ok" ELSE None
       /\ LaunchFailedAt("list", "pull") =>
             /\ pc' \in {"checkout", "get_after", "return"}
             /\ result' = IF pc' = "return" THEN "Ok" ELSE None
       /\ LaunchFailedAt("after", "rev-parse") =>
             pc' = "restore" /\ result' = None
       /\ LaunchFailedAt("restore", "checkout") =>
             pc' = "return" /\ result' = "Ok"
       /\ LaunchFailedAt("log", "rev-parse") =>
             pc' = "pull_current" /\ result' = None
       /\ LaunchFailedAt("current", "pull") =>
             pc' = "return" /\ result' = "Ok"
      ]_vars

C15_Witness ==
    /\ Completed /\ result = "Ok"
    /\ last = [op |-> "checkout", outcome |-> "launch"]
    /\ Len(ops) = 2
    /\ ops[1].site = "original" /\ ~ops[1].ok
    /\ ops[2].site = "list" /\ ~ops[2].ok

\* The listed checkouts of the current call, in the order issued
ListCheckouts ==
    LET IsCheckout(o) == o.site = "list" /\ o.op = "checkout"
    IN  SelectSeq(ops, IsCheckout)

\* C16: no git operation is retried, whatever the outcomes: process_project is
\* called at most once per project and one call runs at most one clone; the
\* listed checkouts are one per entry of the branch list, in list order; every
\* listed pull directly follows the successful checkout of its entry, so an
\* entry is pulled at most once; at most one restoring checkout and, with no
\* branch list, at most one pull are run.
C16_NoRetries ==
    /\ \A i \in 1..Len(calls) : calls[i] <= 1
    /\ Len(OpsAt("clone")) <= 1
    /\ Len(ListCheckouts) <= Len(BranchList)
    /\ \A k \in 1..Len(ListCheckouts) : ListCheckouts[k].branch = BranchList[k]
    /\ \A k \in 1..Len(ops) :
          (ops[k].site = "list" /\ ops[k].op = "pull") =>
              /\ k > 1
              /\ ops[k - 1].site = "list" /\ ops[k - 1].op = "checkout"
              /\ ops[k - 1].ok /\ ops[k - 1].branch = ops[k].branch
    /\ Len(RestoreOps) <= 1
    /\ Len(OpsAt("current")) <= 1
    /\ Len(OpsAt("original")) <= 1 /\ Len(OpsAt("after")) <= 1
    /\ Len(OpsAt("log")) <= 1

C16_Witness ==
    /\ Completed
    /\ BranchList = <<"dev", "dev">>
    /\ found = [kind |-> "absent", head |-> None]
    /\ Len(ops) = 7
    /\ ops[1].op = "clone" /\ ops[1].ok
    /\ ops[2].site = "original" /\ ops[2].ok
    /\ ops[3].op = "checkout" /\ ~ops[3].ok
    /\ ops[4].op = "checkout" /\ ops[4].ok
    /\ ops[5].op = "pull" /\ ~ops[5].ok
    /\ ops[6].site = "after"
    /\ ops[7].site = "restore" /\ ~ops[7].ok
    /\ last = [op |-> "checkout", outcome |-> "launch"]

\* C17: projects are processed one after the other in declared order, and git
\* subprocesses never overlap: at most one git child process is in flight, and
\* only while the main thread is inside the Command::output() call of one git
\* operation; a new child is started only when none is in flight; the loop
\* takes the next project, in list order, only when no child of the previous
\* project is in flight, and every git subprocess of the current call works on
\* the current project's path.
C17_StrictlySequential ==
    /\ [](/\ inflight \in {0, 1}
          /\ (inflight = 1) <=> spawned
          /\ spawned => pc \in GitPcs
          /\ \A k \in 1..Len(ops) : ops[k].path = project_path
          /\ \A i \in 1..Len(calls) : calls[i] = IF i <= idx THEN 1 ELSE 0)
    /\ [][/\ inflight' > inflight => inflight = 0
          /\ idx' # idx => idx' = idx + 1 /\ inflight = 0 /\ ops = << >>
          /\ Len(ops') > Len(ops) => inflight' = 0]_vars

C17_Witness ==
    /\ idx = 2 /\ errors = {}
    /\ pc = "checkout" /\ spawned /\ inflight = 1
    /\ found.kind = "absent"
    /\ Len(ops) = 2 /\ ops[1].op = "clone"

\* C18: once the project loop was reached main returns Ok, whatever the
\* projects returned; main returns an error only before any project is taken:
\* AppError::CtrlCSetup from the handler installation, AppError::Config from
\* load_config_from_file (only for an invalid configuration), and
\* AppError::CurrentDir from the working-directory lookup.
C18_OkOnceProjectsReached ==
    /\ pc = "done" => main_result = "Ok"
    /\ pc \in {"loop", "exists", "create_dirs", "verify", "return"} \cup GitPcs =>
           main_result = None
    /\ idx > 0 => main_result \in {None, "Ok"}
    /\ main_result \notin {None, "Ok"} =>
           /\ pc = "failed" /\ idx = 0 /\ ops = << >>
           /\ main_result \in {"CtrlCSetup", "Config", "CurrentDir"}
    /\ main_result = "Config" => ~ValidDoc
    /\ pc = "failed" => main_result \in {"CtrlCSetup", "Config", "CurrentDir"}

C18_Witness ==
    /\ pc = "done" /\ main_result = "Ok"
    /\ n = 2 /\ idx = 2 /\ errors = {1, 2}
    /\ finish_message = "some_errors"

\* pull_branch_updates has returned
Pulled == pull_call.report # NoReport

\* The captured output holds "Already up to date." or "Bereits aktuell."
HasUpToDatePhrase ==
    LET s == pull_call.stdout IN
    \E i \in 1..Len(s) :
        /\ i < Len(s)
        /\ \/ s[i] = "Already" /\ s[i + 1] = "up to date."
           \/ s[i] = "Bereits" /\ s[i + 1] = "aktuell."

\* C19: a git pull that exited with status 0 and whose captured output
\* contains one of the phrases "Already up to date." / "Bereits aktuell."
\* makes pull_branch_updates return Ok with the "is already up to date" status
\* and without the "Successfully pulled updates" status; a git pull that exited
\* with status 0 without such a phrase makes it return Ok with the
\* "Successfully pulled updates" status and without the "is already up to
\* date" status; a pull that exited with status 0 never returns an error.
C19_UpToDateIsNoOpSuccess ==
    (Pulled /\ pull_call.outcome = "ok") =>
        /\ pull_call.report.result = "Ok"
        /\ HasUpToDatePhrase =>
              /\ "is already up to date" \in pull_call.report.statuses
              /\ "Successfully pulled updates" \notin pull_call.report.statuses
        /\ ~HasUpToDatePhrase =>
              /\ "Successfully pulled updates" \in pull_call.report.statuses
              /\ "is already up to date" \notin pull_call.report.statuses

C19_Witness ==
    /\ Pulled
    /\ pull_call.outcome = "ok"
    /\ pull_call.stdout = <<"Updating", "Already", "up to date.">>
    /\ pull_call.branch = "dev"
    /\ pull_call.report =
          [result |-> "Ok", display |-> "dev", statuses |-> {"is already up to date"}]

\* The target path existed when process_project looked at it
PathExisted == found.kind \in {"dir", "repo"}

\* C20: when the target path already exists, be it a repository or not, no
\* parent directory is created and no clone is run for the project: from the
\* existence test process_project goes straight to the repository check, and
\* every git subprocess of the call is a branch query, checkout or pull.
C20_ExistingPathNotCloned ==
    /\ [](PathExisted =>
            /\ pc \notin {"create_dirs", "clone"}
            /\ \A k \in 1..Len(ops) : ops[k].op # "clone"
            /\ fs.kind = found.kind)
    /\ [][(pc = "exists" /\ PathExisted /\ pc' # pc) =>
              pc' = "verify" /\ ops' = << >>]_vars

C20_Witness ==
    /\ Completed /\ result = "NotGitRepository"
    /\ found = [kind |-> "dir", head |-> None]
    /\ ops = << >>

\* process_project has resolved the target path
Resolved == path_call.stage = "resolved"

\* C21 as stated: the resolved target path is the project's path as-is when
\* that path is absolute, and otherwise the effective parent directory joined
\* with the project's path.
C21_Original ==
    Resolved =>
        path_call.project_path =
            IF Head(path_call.path) = "/" THEN path_call.path
            ELSE path_call.effective_parent_dir \o path_call.path

\* C21 amended: the resolved target path is the project's path as-is when that
\* path is absolute, whatever the parent directory; a path with a leading ~ is
\* the home directory followed by the rest of the path, whatever the parent
\* directory; any other path is the effective parent directory joined with it.
C21_ResolvedPath ==
    Resolved =>
        path_call.project_path =
            IF Head(path_call.path) = "/" THEN path_call.path
            ELSE IF Head(path_call.path) = "~"
                 THEN <<"/", "home">> \o Tail(path_call.path)
            ELSE path_call.effective_parent_dir \o path_call.path

C21_Witness ==
    /\ Resolved
    /\ path_call.global_config.dir = [some |-> TRUE, value |-> <<"~", "work">>]
    /\ path_call.path = <<"app">>
    /\ path_call.effective_parent_dir = <<"/", "home", "work">>
    /\ path_call.project_path = <<"/", "home", "work", "app">>

\* main has chosen the effective parent directory
ParentChosen == path_call.stage \in {"parent", "resolved"}

\* C22: the effective parent directory is the configuration file's directory
\* when global_config is absent or default_clone_parent_directory is unset;
\* the current working directory when it is set to the empty string; and for a
\* non-empty value the value with a leading ~ replaced by the home directory,
\* used as-is when that is absolute and appended to the configuration file's
\* directory when it is relative.
C22_EffectiveParentCases ==
    ParentChosen =>
        LET g == path_call.global_config
            v == g.dir.value
            expanded == IF v # << >> /\ v[1] = "~"
                        THEN <<"/", "home">> \o SubSeq(v, 2, Len(v)) ELSE v
        IN  /\ ~g.present => path_call.effective_parent_dir = path_call.config_file_dir
            /\ (g.present /\ ~g.dir.some) =>
                   path_call.effective_parent_dir = path_call.config_file_dir
            /\ (g.dir.some /\ v = << >>) =>
                   path_call.effective_parent_dir = <<"/", "cwd">>
            /\ (g.dir.some /\ v # << >> /\ expanded[1] = "/") =>
                   path_call.effective_parent_dir = expanded
            /\ (g.dir.some /\ v # << >> /\ expanded[1] # "/") =>
                   path_call.effective_parent_dir =
                       path_call.config_file_dir \o expanded

C22_Witness ==
    /\ ParentChosen
    /\ path_call.global_config.dir = [some |-> TRUE, value |-> << >>]
    /\ path_call.config_file_dir = <<"conf">>
    /\ path_call.effective_parent_dir = <<"/", "cwd">>

\* The last git step of the current call is a step of branch synchronization:
\* a listed checkout or pull, the restoring checkout, or the pull of the
\* current branch
SyncStepDone ==
    /\ ops # << >>
    /\ ops[Len(ops)].site \in {"list", "restore", "current"}

\* Where Command::output() was called among the emitted events
RunAt == CHOOSE r \in 1..Len(events) : events[r] = GitRun

\* C23: every checkout, pull and restoring checkout of branch synchronization
\* emits a status to the progress reporter before git is run and another
\* after it has run, and a log entry, whether the step succeeds or fails.
C23_StatusBeforeAndAfter ==
    SyncStepDone =>
        /\ \E i \in 1..Len(events) : i < RunAt /\ events[i].to = "progress"
        /\ \E i \in 1..Len(events) : i > RunAt /\ events[i].to = "progress"
        /\ \E i \in 1..Len(events) : events[i].to = "log"

\* C24: when the current-branch query before an explicit list succeeded and
\* the query after the list fails (non-zero exit or launch failure), the
\* restoring checkout of the original branch is still attempted: it is the
\* git subprocess that follows the failed query, and it is the last one of the
\* call, even when the repository is still on the original branch.
C24_UnknownAfterListRestores ==
    (Completed /\ PlanStarted /\ ~OriginalQueryFailed /\ AfterQueryFailed) =>
        /\ Len(ops) >= 2
        /\ ops[Len(ops) - 1].site = "after" /\ ~ops[Len(ops) - 1].ok
        /\ ops[Len(ops)].site = "restore"
        /\ ops[Len(ops)].op = "checkout"
        /\ ops[Len(ops)].branch = original_branch
        /\ Len(OpsAt("restore")) = 1

C24_Witness ==
    /\ Completed /\ result = "Ok"
    /\ found = [kind |-> "repo", head |-> "main"]
    /\ BranchList = <<"dev">>
    /\ original_branch = "main"
    /\ Len(ops) = 4
    /\ ops[2].site = "list" /\ ops[2].op = "checkout" /\ ~ops[2].ok
    /\ ops[3].site = "after" /\ ~ops[3].ok
    /\ ops[4].site = "restore" /\ ops[4].branch = "main" /\ ops[4].ok
    /\ fs.head = "main"

\* The current call cloned the repository
ClonedNow == ops # << >> /\ ops[1].op = "clone" /\ ops[1].ok

\* The git subprocesses of the current call after the clone
AfterClone == SubSeq(ops, 2, Len(ops))

\* C25: a successful clone does not end process_project: the step after it is
\* the repository check, then branch synchronization runs in the same call,
\* and when the call returns (Ok) it has, after the clone, queried and pulled
\* the current branch when no branch list is given, or queried the current
\* branch, checked out every listed branch in order and ended on the branch
\* the clone had checked out unless a restoring checkout failed.
C25_CloneThenSync ==
    /\ [](ClonedNow =>
            /\ pc \in {"verify", "get_original", "checkout", "pull", "get_after",
                       "restore", "log_current", "pull_current", "return"}
            /\ fs.kind = "repo"
            /\ Completed =>
                  /\ result = "Ok"
                  /\ IF config.pull_branches.some /\ BranchList # << >>
                     THEN /\ AfterClone[1].site = "original"
                          /\ [k \in 1..Len(ListCheckouts) |-> ListCheckouts[k].branch]
                                = BranchList
                          /\ (original_branch # None /\ RestoreSucceeded) =>
                                 fs.head = original_branch
                     ELSE /\ Len(AfterClone) = 2
                          /\ AfterClone[1].site = "log"
                          /\ AfterClone[2].site = "current"
                          /\ AfterClone[2].op = "pull"
                          /\ AfterClone[2].branch = None)
    /\ [][(~ClonedNow /\ ClonedNow') => pc' = "verify" /\ result' = None]_vars

C25_Witness ==
    /\ Completed /\ result = "Ok"
    /\ found.kind = "noparent"
    /\ BranchList = <<"dev">>
    /\ Len(ops) = 6
    /\ ops[1].op = "clone" /\ ops[1].ok
    /\ ops[2].site = "original" /\ ops[2].ok /\ original_branch = "main"
    /\ ops[3].op = "checkout" /\ ops[3].branch = "dev" /\ ops[3].ok
    /\ ops[4].op = "pull" /\ ops[4].branch = "dev" /\ ops[4].ok
    /\ ops[5].site = "after" /\ ops[5].ok
    /\ ops[6].site = "restore" /\ ops[6].branch = "main" /\ ops[6].ok
    /\ fs.head = "main"

====
